---- MODULE Spec2Model ----
(***************************************************************************)
(* Model of the mcshader-lsp language server bootstrap (server.ts) and of  *)
(* its Config object (config.ts).                                          *)
(*                                                                         *)
(* Paths are sequences of segments: "/proj/shaders" is <<"proj","shaders">>*)
(* and a single file or folder name is a one-segment path.  JavaScript     *)
(* runs every handler to completion, so each handler is one action.        *)
(***************************************************************************)
EXTENDS Integers, Sequences, FiniteSets, Bags, TLC

VARIABLES
    status,       \* "loading" | "listening" | "crashed": evaluation of the server module
    settings,     \* host configuration storage, section `mcglsl`
    workspace,    \* vscode.workspace: [name, rootPath], both Undefined when no folder is open
    platform,     \* os.platform()
    conf,         \* the Config singleton: field -> [val, gen]
    ctorCount,    \* number of Config constructor calls so far (generation stamp)
    open,         \* documents.all(): URIs the synchronisation layer holds
    text,         \* uri -> content version of the document
    outstanding,  \* bag of preprocessing passes whose validator call has not returned
    published,    \* uri -> content version the published diagnostics were computed from
    completions,  \* the static candidate list of completionProvider
    last          \* the handler that ran last, with its inputs and its result

vars == <<status, settings, workspace, platform, conf, ctorCount, open, text,
          outstanding, published, completions, last>>

----------------------------------------------------------------------------
(* Bounds of the model *)

MaxGen == 3           \* Config constructor calls
MaxEdits == 2         \* content changes the host delivers, over all documents
MaxOutstanding == 2   \* simultaneously outstanding passes
NumCompletions == 2   \* length of the static candidate list

Docs == {"a.fsh", "b.vsh"}

----------------------------------------------------------------------------
(* Values *)

Fields == {"minecraftPath", "glslangPath", "workDir", "tmpdir", "isWin", "outputMatch"}

Undefined == <<"<undefined>">>      \* the JavaScript value undefined, where a path is expected
TypeError == <<"<TypeError>">>      \* a thrown TypeError, as the outcome of a path operation
Thrown == [threw |-> TRUE]          \* a constructor or method call that threw
JsUndefined == [undefined |-> TRUE] \* undefined, as the result of an array read
NotFound == [notFound |-> TRUE]     \* a not-found failure (the code never produces it)

OsTmpdir == <<"tmp">>
regLinuxOutput == "regLinuxOutput"

NoWorkspace == [name |-> Undefined, rootPath |-> Undefined]

Workspaces ==
    { [name |-> <<"proj">>,    rootPath |-> <<"home", "proj">>],
      [name |-> <<"shaders">>, rootPath |-> <<"home", "shaders">>],
      [name |-> <<"Shaders">>, rootPath |-> <<"Shaders">>],
      [name |-> <<"fs">>,      rootPath |-> <<>>] }

\* An untitled workspace emptied of its folders: a name, no root.
EmptiedWorkspace == [name |-> <<"Untitled">>, rootPath |-> Undefined]

\* The workspace lacks the name or the root the Config is derived from.
Absent(ws) == ws.name = Undefined \/ ws.rootPath = Undefined

SettingsValues ==
    { [glslangValidatorPath |-> "glslangValidator", minecraftPath |-> "mc1"],
      [glslangValidatorPath |-> "/opt/glslangValidator", minecraftPath |-> "mc2"] }

----------------------------------------------------------------------------
(* Node's path module, on segment sequences *)

RECURSIVE Concat(_)
Concat(parts) ==
    IF parts = <<>> THEN <<>> ELSE Head(parts) \o Concat(Tail(parts))

\* String concatenation in place of path.join: a missing argument becomes
\* the text "undefined".
PathConcat(parts) ==
    Concat([i \in 1..Len(parts) |->
               IF parts[i] = Undefined THEN <<"undefined">> ELSE parts[i]])

\* path.join(...parts): every argument must be a string, else a TypeError is
\* thrown; the result is the segments of the arguments, in order.
PathJoin(parts) ==
    IF \E i \in 1..Len(parts) : parts[i] = Undefined
    THEN TypeError
    ELSE Concat(parts)

\* path.basename(p): the final segment, "" for the root; a TypeError for a
\* missing argument (reported here as the segment "<TypeError>").
PathBasename(p) ==
    IF p = Undefined THEN "<TypeError>"
    ELSE IF p = <<>> THEN "" ELSE p[Len(p)]

----------------------------------------------------------------------------
(* Config (config.ts) *)

\* The working directory with the comparison against 'shaders' left out.
WorkDirAlwaysAppend(rootPath) ==
    PathJoin(<<rootPath, <<"shaders">>>>)

\* Lines 70-72: the project root itself when its final segment is 'shaders',
\* else the root with 'shaders' appended.
WorkDir(rootPath) ==
    IF PathBasename(rootPath) = "<TypeError>" THEN TypeError
    ELSE IF PathBasename(rootPath) = "shaders" THEN rootPath
    ELSE PathJoin(<<rootPath, <<"shaders">>>>)

Stamp(v, gen) == [val |-> v, gen |-> gen]

\* A constructor that builds its paths by string concatenation, so that
\* nothing rejects a missing workspace.
ConfigCtorConcat(c, ws, plat, gen) ==
    [glslangPath   |-> Stamp(c.glslangValidatorPath, gen),
     minecraftPath |-> Stamp(c.minecraftPath, gen),
     isWin         |-> Stamp(plat = "win32", gen),
     tmpdir        |-> Stamp(PathConcat(<<OsTmpdir, ws.name, <<"shaders">>>>), gen),
     outputMatch   |-> Stamp(regLinuxOutput, gen),
     workDir       |-> Stamp(PathConcat(<<ws.rootPath, <<"shaders">>>>), gen)]

\* new Config(): c is getConfiguration('mcglsl'), ws is vscode.workspace,
\* plat is os.platform().  path.join (line 63, before any assignment) and
\* path.basename (line 70) throw on a missing argument; the object under
\* construction is then dropped and the caller gets the exception.  The
\* object returned has all six fields, each written by this call (gen).
ConfigCtor(c, ws, plat, gen) ==
    LET tmp == PathJoin(<<OsTmpdir, ws.name, <<"shaders">>>>)
        wd  == WorkDir(ws.rootPath)
    IN  IF tmp = TypeError \/ wd = TypeError THEN Thrown
        ELSE [glslangPath   |-> Stamp(c.glslangValidatorPath, gen),
              minecraftPath |-> Stamp(c.minecraftPath, gen),
              isWin         |-> Stamp(plat = "win32", gen),
              tmpdir        |-> Stamp(tmp, gen),
              outputMatch   |-> Stamp(regLinuxOutput, gen),
              workDir       |-> Stamp(wd, gen)]

\* An assignment that copies only the two settings read from the host.
ObjectAssignPartial(target, source) ==
    [f \in DOMAIN target |->
        IF f \in {"glslangPath", "minecraftPath"} /\ f \in DOMAIN source
        THEN source[f] ELSE target[f]]

\* Object.assign(target, source): every own property of source is written
\* onto target, the other properties of target stay.
ObjectAssign(target, source) ==
    [f \in (DOMAIN target) \cup (DOMAIN source) |->
        IF f \in DOMAIN source THEN source[f] ELSE target[f]]

\* An onChange that updates in place only the two fields read from the
\* host settings.
OnChangeSettingsOnly(this, e, c, ws, plat, gen) ==
    IF e.affects
    THEN [this EXCEPT !.glslangPath = Stamp(c.glslangValidatorPath, gen),
                      !.minecraftPath = Stamp(c.minecraftPath, gen)]
    ELSE this

\* onChange without the affectsConfiguration test.
OnChangeNoGuard(this, e, c, ws, plat, gen) ==
    LET fresh == ConfigCtor(c, ws, plat, gen)
    IN  IF fresh = Thrown THEN Thrown ELSE ObjectAssign(this, fresh)

\* Config.onChange(e), lines 75-80: the Config after the call, or Thrown
\* when the constructor threw (nothing was assigned then).
OnChange(this, e, c, ws, plat, gen) ==
    IF e.affects
    THEN LET fresh == ConfigCtor(c, ws, plat, gen)
         IN  IF fresh = Thrown THEN Thrown ELSE ObjectAssign(this, fresh)
    ELSE this

----------------------------------------------------------------------------
(* Linter and completion provider (linter.ts, completionProvider.ts) *)

\* The generations of the fields of a Config, as one read of it sees them.
Gens(c) == {c[f].gen : f \in DOMAIN c}

\* preprocess(document): starts one pass on the document's current content,
\* reading the Config singleton; the validator call is then outstanding.
Preprocess(d, txt, c) == [uri |-> d, text |-> txt[d], gens |-> Gens(c)]

\* The static candidate list; candidate i carries data = i.
CompletionList == [i \in 1..NumCompletions |-> [label |-> i, data |-> i]]

\* arr[index] in JavaScript: the element, or undefined outside 0..length-1.
ArrayGet(arr, index) ==
    IF index \in 0..(Len(arr) - 1) THEN arr[index + 1] ELSE JsUndefined

----------------------------------------------------------------------------
(* The server (server.ts) *)

\* The state before the module is evaluated, for a host in state h.
Start(hostSettings, hostWorkspaces, platforms) ==
    /\ status = "loading"
    /\ settings \in hostSettings
    /\ workspace \in hostWorkspaces
    /\ platform \in platforms
    /\ conf = <<>>
    /\ ctorCount = 0
    /\ open = {}
    /\ text = [d \in Docs |-> 0]
    /\ outstanding = EmptyBag
    /\ published = [d \in Docs |-> 0]
    /\ completions = CompletionList
    /\ last = [op |-> "none"]

\* Evaluation of the module, lines 6-42: `new Config('', '')` at line 12 (the
\* constructor ignores its arguments); a throw there ends the process.
Load ==
    /\ status = "loading"
    /\ ctorCount' = ctorCount + 1
    /\ LET fresh == ConfigCtor(settings, workspace, platform, ctorCount + 1)
       IN  IF fresh = Thrown
           THEN /\ status' = "crashed"
                /\ conf' = conf
                /\ last' = [op |-> "load", threw |-> TRUE]
           ELSE /\ status' = "listening"
                /\ conf' = fresh
                /\ last' = [op |-> "load", threw |-> FALSE]
    /\ UNCHANGED <<settings, workspace, platform, open, text, outstanding,
                   published, completions>>

\* The user edits the mcglsl settings in the host.
HostEditSettings(c) ==
    /\ status # "crashed"
    /\ c # settings
    /\ settings' = c
    /\ last' = [op |-> "host"]
    /\ UNCHANGED <<status, workspace, platform, conf, ctorCount, open, text,
                   outstanding, published, completions>>

\* The host opens another folder, or closes the folder.
HostChangeWorkspace(ws) ==
    /\ status # "crashed"
    /\ ws # workspace
    /\ workspace' = ws
    /\ last' = [op |-> "host"]
    /\ UNCHANGED <<status, settings, platform, conf, ctorCount, open, text,
                   outstanding, published, completions>>

\* The host closes a document: the synchronisation layer drops it.
HostCloseDocument(d) ==
    /\ status = "listening"
    /\ d \in open
    /\ open' = open \ {d}
    /\ last' = [op |-> "host"]
    /\ UNCHANGED <<status, settings, workspace, platform, conf, ctorCount, text,
                   outstanding, published, completions>>

RECURSIVE SumOver(_, _)
SumOver(f, S) ==
    IF S = {} THEN 0
    ELSE LET x == CHOOSE y \in S : TRUE IN f[x] + SumOver(f, S \ {x})

\* The content changes delivered so far: each raises one version by one.
Edits(txt) == SumOver(txt, Docs)

SingleBag(x) == SetToBag({x})

\* A content-change handler that drops the outstanding passes of the
\* document before it starts the new one.
OnDidChangeContentSupersede(d) ==
    /\ status = "listening"
    /\ Edits(text) < MaxEdits
    /\ BagCardinality(outstanding) < MaxOutstanding
    /\ open' = open \cup {d}
    /\ text' = [text EXCEPT ![d] = text[d] + 1]
    /\ LET kept == {p \in BagToSet(outstanding) : p.uri # d}
           pass == Preprocess(d, text', conf)
       IN  /\ outstanding' = [p \in kept |-> outstanding[p]] (+) SingleBag(pass)
           /\ last' = [op |-> "onDidChangeContent", uri |-> d,
                       started |-> SingleBag(pass)]
    /\ UNCHANGED <<status, settings, workspace, platform, conf, ctorCount,
                   published, completions>>

\* A content-change handler that preprocesses every open document.
OnDidChangeContentAll(d) ==
    /\ status = "listening"
    /\ Edits(text) < MaxEdits
    /\ open' = open \cup {d}
    /\ text' = [text EXCEPT ![d] = text[d] + 1]
    /\ BagCardinality(outstanding) + Cardinality(open') <= MaxOutstanding
    /\ LET started == SetToBag({Preprocess(x, text', conf) : x \in open'})
       IN  /\ outstanding' = outstanding (+) started
           /\ last' = [op |-> "onDidChangeContent", uri |-> d, started |-> started]
    /\ UNCHANGED <<status, settings, workspace, platform, conf, ctorCount,
                   published, completions>>

\* documents.onDidChangeContent, lines 25-27: the synchronisation layer has
\* stored the opened or edited document; the handler preprocesses it.
OnDidChangeContent(d) ==
    /\ status = "listening"
    /\ Edits(text) < MaxEdits
    /\ BagCardinality(outstanding) < MaxOutstanding
    /\ open' = open \cup {d}
    /\ text' = [text EXCEPT ![d] = text[d] + 1]
    /\ LET pass == Preprocess(d, text', conf)
       IN  /\ outstanding' = outstanding (+) SingleBag(pass)
           /\ last' = [op |-> "onDidChangeContent", uri |-> d,
                       started |-> SingleBag(pass)]
    /\ UNCHANGED <<status, settings, workspace, platform, conf, ctorCount,
                   published, completions>>

\* A configuration handler that preprocesses the open documents first and
\* updates the Config afterwards.
OnDidChangeConfigurationLate(e) ==
    /\ status = "listening"
    /\ e.affects => ctorCount < MaxGen
    /\ BagCardinality(outstanding) + Cardinality(open) <= MaxOutstanding
    /\ ctorCount' = IF e.affects THEN ctorCount + 1 ELSE ctorCount
    /\ LET started == SetToBag({Preprocess(d, text, conf) : d \in open})
           after == OnChange(conf, e, settings, workspace, platform, ctorCount + 1)
       IN  /\ outstanding' = outstanding (+) started
           /\ conf' = IF after = Thrown THEN conf ELSE after
           /\ last' = [op |-> "onDidChangeConfiguration", affects |-> e.affects,
                       threw |-> (after = Thrown), started |-> started]
    /\ UNCHANGED <<status, settings, workspace, platform, open, text, published,
                   completions>>

\* connection.onDidChangeConfiguration, lines 29-32: conf.onChange, then
\* preprocess for each of documents.all().  A throw inside onChange leaves
\* the handler before line 31; the connection reports it and goes on.
OnDidChangeConfiguration(e) ==
    /\ status = "listening"
    /\ e.affects => ctorCount < MaxGen
    /\ ctorCount' = IF e.affects THEN ctorCount + 1 ELSE ctorCount
    /\ LET after == OnChange(conf, e, settings, workspace, platform, ctorCount + 1)
       IN  IF after = Thrown
           THEN /\ conf' = conf
                /\ outstanding' = outstanding
                /\ last' = [op |-> "onDidChangeConfiguration", affects |-> e.affects,
                            threw |-> TRUE, started |-> EmptyBag]
           ELSE /\ BagCardinality(outstanding) + Cardinality(open) <= MaxOutstanding
                /\ conf' = after
                /\ LET started == SetToBag({Preprocess(d, text, after) : d \in open})
                   IN  /\ outstanding' = outstanding (+) started
                       /\ last' = [op |-> "onDidChangeConfiguration",
                                   affects |-> e.affects, threw |-> FALSE,
                                   started |-> started]
    /\ UNCHANGED <<status, settings, workspace, platform, open, text, published,
                   completions>>

\* connection.onCompletion, lines 34-36.
OnCompletion ==
    /\ status = "listening"
    /\ last' = [op |-> "onCompletion", result |-> completions]
    /\ UNCHANGED <<status, settings, workspace, platform, conf, ctorCount, open,
                   text, outstanding, published, completions>>

\* A resolve handler that indexes the list with the id itself.
OnCompletionResolveNoShift(data) ==
    /\ status = "listening"
    /\ last' = [op |-> "onCompletionResolve", data |-> data, index |-> data,
                result |-> ArrayGet(completions, data)]
    /\ UNCHANGED <<status, settings, workspace, platform, conf, ctorCount, open,
                   text, outstanding, published, completions>>

\* connection.onCompletionResolve, lines 38-40: completions[item.data - 1].
OnCompletionResolve(data) ==
    /\ status = "listening"
    /\ last' = [op |-> "onCompletionResolve", data |-> data, index |-> data - 1,
                result |-> ArrayGet(completions, data - 1)]
    /\ UNCHANGED <<status, settings, workspace, platform, conf, ctorCount, open,
                   text, outstanding, published, completions>>

\* The validator call of pass p returns: its output is parsed against the
\* Config's pattern and the diagnostics replace those published for the URI.
Publish(p) ==
    /\ status = "listening"
    /\ BagIn(p, outstanding)
    /\ outstanding' = outstanding (-) SingleBag(p)
    /\ published' = [published EXCEPT ![p.uri] = p.text]
    /\ last' = [op |-> "publish", pass |-> p, seen |-> Gens(conf)]
    /\ UNCHANGED <<status, settings, workspace, platform, conf, ctorCount, open,
                   text, completions>>

\* The workspace and settings the server specification runs with.
ServerWorkspace == [name |-> <<"proj">>, rootPath |-> <<"home", "proj">>]
ServerSettings == [glslangValidatorPath |-> "glslangValidator", minecraftPath |-> "mc1"]

\* The whole server: documents, passes, completion; the host opens and
\* closes one folder.
Init == Start({ServerSettings}, {ServerWorkspace, NoWorkspace}, {"linux"})

Next ==
    \/ Load
    \/ \E ws \in {ServerWorkspace, NoWorkspace} : HostChangeWorkspace(ws)
    \/ \E d \in Docs : HostCloseDocument(d)
    \/ \E d \in Docs : OnDidChangeContent(d)
    \/ \E affects \in BOOLEAN : OnDidChangeConfiguration([affects |-> affects])
    \/ OnCompletion
    \/ \E data \in 0..(NumCompletions + 1) : OnCompletionResolve(data)
    \/ \E p \in BagToSet(outstanding) : Publish(p)

Spec == Init /\ [][Next]_vars

\* The Config under every host state: settings, folders and platforms
\* vary and configuration changes arrive; no document is open.
HostWorkspaces == Workspaces \cup {NoWorkspace, EmptiedWorkspace}

InitConfig == Start(SettingsValues, HostWorkspaces, {"linux", "win32"})

NextConfig ==
    \/ Load
    \/ \E c \in SettingsValues : HostEditSettings(c)
    \/ \E ws \in HostWorkspaces : HostChangeWorkspace(ws)
    \/ \E affects \in BOOLEAN : OnDidChangeConfiguration([affects |-> affects])

SpecConfig == InitConfig /\ [][NextConfig]_vars

----------------------------------------------------------------------------
(* Helpers of the properties *)

IsConfigChange(l) == l.op = "onDidChangeConfiguration"

\* The last handler built a Config and installed it.
Regenerated(l) ==
    \/ l.op = "load" /\ ~l.threw
    \/ IsConfigChange(l) /\ l.affects /\ ~l.threw

\* The last handler asked for a new Config.
AskedForConfig(l) == l.op = "load" \/ (IsConfigChange(l) /\ l.affects)

HasSegment(path, seg) == \E i \in 1..Len(path) : path[i] = seg

\* The passes of bag B that are for document d, counted with multiplicity.
PassesFor(B, d) ==
    BagCardinality([p \in {q \in BagToSet(B) : q.uri = d} |-> B[p]])

----------------------------------------------------------------------------
(* Properties of Config, checked under SpecConfig *)

\* C1: a configuration-change event that does not affect `mcglsl` leaves the
\* Config exactly as it was: every step of such a handler keeps all six
\* fields (values and the construction they stem from) and throws nothing.
C1_NoOpOutsideNamespace ==
    [][(IsConfigChange(last') /\ ~last'.affects)
          => (conf' = conf /\ ctorCount' = ctorCount /\ ~last'.threw)]_vars

\* C1 case: a non-affecting event arrived although the host settings differ
\* from what the Config holds, and the Config kept its values.
C1_Witness ==
    /\ IsConfigChange(last) /\ ~last.affects
    /\ conf.glslangPath.val # settings.glslangValidatorPath
    /\ ~Absent(workspace)
    /\ conf.workDir.val # WorkDir(workspace.rootPath)

C8_WorkDir ==
    Regenerated(last) =>
        LET root == workspace.rootPath
            wd   == conf.workDir.val
        IN  /\ (root # <<>> /\ root[Len(root)] = "shaders") => wd = root
            /\ (root = <<>> \/ root[Len(root)] # "shaders") => wd = Append(root, "shaders")
            /\ wd # <<>> /\ wd[Len(wd)] = "shaders"
            /\ WorkDir(wd) = wd

\* C8 case: a Config rebuilt in a folder that is itself named `shaders`.
C8_Witness ==
    /\ Regenerated(last) /\ last.op # "load"
    /\ workspace.rootPath = <<"home", "shaders">>
    /\ conf.workDir.val = <<"home", "shaders">>

----------------------------------------------------------------------------
(* Properties of the server, checked under Spec *)

\* C3: every Config a preprocessing pass observes, when it starts and when
\* its validator call returns, has all its fields from one construction.
C3_AtomicRegeneration ==
    /\ \A p \in BagToSet(outstanding) : Cardinality(p.gens) = 1
    /\ last.op = "publish" => Cardinality(last.seen) = 1

\* C3 case: a pass started under one Config returns after a regeneration.
C3_Witness ==
    /\ last.op = "publish"
    /\ last.seen # last.pass.gens
    /\ \E p \in BagToSet(outstanding) : p.gens # Gens(conf)

C5_OnePassPerChange ==
    last.op = "onDidChangeContent" =>
        /\ BagCardinality(last.started) = 1
        /\ \A p \in BagToSet(last.started) :
              p.uri = last.uri /\ p.text = text[last.uri]
        /\ last.started \sqsubseteq outstanding

\* C5 case: a document changes while another one is open.
C5_Witness ==
    /\ last.op = "onDidChangeContent"
    /\ \E d \in open : d # last.uri

\* C6: resolving id 0 or N+1 fails with a not-found result and reads no
\* position outside the list.
C6_OutOfRangeIsNotFound ==
    (last.op = "onCompletionResolve" /\ last.data \in {0, Len(completions) + 1}) =>
        /\ last.result = NotFound
        /\ last.index \in 0..(Len(completions) - 1)

\* C7: the candidate list never changes, and resolving id i in 1..N returns
\* the candidate at position i - 1 of it (counted from 0), the one whose
\* data is i.
C7_ResolveIsStable ==
    /\ completions = CompletionList
    /\ (last.op = "onCompletionResolve" /\ last.data \in 1..NumCompletions) =>
          /\ last.result = CompletionList[last.data]
          /\ last.result.data = last.data

\* C7 case: the last id is resolved after a regeneration and with a pass
\* outstanding.
C7_Witness ==
    /\ last.op = "onCompletionResolve" /\ last.data = NumCompletions
    /\ ctorCount > 1
    /\ BagCardinality(outstanding) > 0

\* C10: nothing cancels or supersedes a pass: a step removes an outstanding
\* pass only by publishing it, and a publication replaces what was
\* published for the URI whatever content it was computed from.
C10_NoSupersession ==
    [][/\ \A p \in BagToSet(outstanding) :
             CopiesIn(p, outstanding') >=
                CopiesIn(p, outstanding)
                   - (IF last'.op = "publish" /\ last'.pass = p THEN 1 ELSE 0)
       /\ (last'.op = "publish" /\ outstanding' # outstanding)
             => published'[last'.pass.uri] = last'.pass.text]_vars

\* C10 case: both passes of a twice-changed document have published, the
\* older one last: the diagnostics shown are those of the older content.
C10_Witness ==
    /\ last.op = "publish"
    /\ text[last.pass.uri] = 2
    /\ published[last.pass.uri] = 1
    /\ \A p \in BagToSet(outstanding) : p.uri # last.pass.uri

====
